---- MODULE Spec2Model ----
(***************************************************************************)
(* Model of cases/search.js of municipal-scraper: the case fetcher         *)
(* (getCases, getCase), the attachment downloader (downloadAction), the    *)
(* download markers, the keyed stores and the narrative parser             *)
(* (parseActions).                                                         *)
(*                                                                         *)
(* Text is modelled as a sequence of one-character strings, so that the    *)
(* regular expressions of the source are computed character by character.  *)
(***************************************************************************)
EXTENDS Integers, Sequences, FiniteSets, TLC

(***************************************************************************)
(* Characters and strings                                                  *)
(***************************************************************************)
DigitChars == <<"0", "1", "2", "3", "4", "5", "6", "7", "8", "9">>

UpperChars == <<"A", "B", "C", "D", "E", "F", "G", "H", "I", "J", "K", "L", "M",
                "N", "O", "P", "Q", "R", "S", "T", "U", "V", "W", "X", "Y", "Z">>

LowerChars == <<"a", "b", "c", "d", "e", "f", "g", "h", "i", "j", "k", "l", "m",
                "n", "o", "p", "q", "r", "s", "t", "u", "v", "w", "x", "y", "z">>

IsDigit(c) == \E i \in 1..10 : DigitChars[i] = c

DigitVal(c) == (CHOOSE i \in 1..10 : DigitChars[i] = c) - 1

\* the /i flag: letters compare by their lower-case form
Lower(c) == IF \E i \in 1..26 : UpperChars[i] = c
            THEN LowerChars[CHOOSE i \in 1..26 : UpperChars[i] = c]
            ELSE c

IsAlnum(c) == IsDigit(c) \/ (\E i \in 1..26 : LowerChars[i] = Lower(c))

\* \s of the regular expressions and the white space String.trim removes
IsSpace(c) == c \in {" ", "\n", "\t"}

\* the characters "." does not match
IsLineTerminator(c) == c = "\n"

RECURSIVE TrimLeft(_)
TrimLeft(s) == IF s # <<>> /\ IsSpace(Head(s)) THEN TrimLeft(Tail(s)) ELSE s

RECURSIVE TrimRight(_)
TrimRight(s) == IF s # <<>> /\ IsSpace(s[Len(s)])
                THEN TrimRight(SubSeq(s, 1, Len(s) - 1))
                ELSE s

\* String.prototype.trim
Trim(s) == TrimRight(TrimLeft(s))

(***************************************************************************)
(* Pieces of the regular expressions of parseActions.  Positions count     *)
(* from 1; an end position is the position after the last matched          *)
(* character; 0 is "no match".                                             *)
(***************************************************************************)
\* [0-9]+ at i, greedy: the position after the run of digits, 0 if there is none
RECURSIVE DigitsEnd(_, _)
DigitsEnd(s, i) ==
    IF i <= Len(s) /\ IsDigit(s[i])
    THEN LET e == DigitsEnd(s, i + 1) IN IF e = 0 THEN i + 1 ELSE e
    ELSE 0

\* [0-9]+\/[0-9]+\/[0-9]+ at i
DateEnd(s, i) ==
    LET a == DigitsEnd(s, i) IN
    IF a = 0 \/ a > Len(s) \/ s[a] # "/" THEN 0
    ELSE LET b == DigitsEnd(s, a + 1) IN
         IF b = 0 \/ b > Len(s) \/ s[b] # "/" THEN 0
         ELSE DigitsEnd(s, b + 1)

\* .* at i, greedy: the position of the next line terminator, or of the end
RECURSIVE LineEnd(_, _)
LineEnd(s, i) ==
    IF i <= Len(s) /\ ~IsLineTerminator(s[i]) THEN LineEnd(s, i + 1) ELSE i

\* ^ with the m flag
AtLineStart(s, i) == i = 1 \/ IsLineTerminator(s[i - 1])

\* actionReg at position i: (^|date)(.*)(date|$).  The greedy (.*) runs to the
\* end of the line, where $ matches, so no backtracking to a later date occurs.
ActionRegEnd(s, i) ==
    IF AtLineStart(s, i) THEN LineEnd(s, i)
    ELSE IF DateEnd(s, i) # 0 THEN LineEnd(s, DateEnd(s, i))
    ELSE 0

\* text.match(actionReg) with the g flag: all matches, scanning from lastIndex;
\* after an empty match lastIndex advances by one
RECURSIVE MatchAll(_, _)
MatchAll(s, i) ==
    IF i > Len(s) + 1 THEN <<>>
    ELSE LET e == ActionRegEnd(s, i) IN
         IF e = 0 THEN MatchAll(s, i + 1)
         ELSE <<SubSeq(s, i, e - 1)>> \o MatchAll(s, IF e = i THEN i + 1 ELSE e)

\* does the pattern (lower case; " " stands for \s) match s at i, ignoring case
RECURSIVE PrefixAt(_, _, _)
PrefixAt(s, i, pat) ==
    IF pat = <<>> THEN TRUE
    ELSE /\ i <= Len(s)
         /\ IF Head(pat) = " " THEN IsSpace(s[i]) ELSE Lower(s[i]) = Head(pat)
         /\ PrefixAt(s, i + 1, Tail(pat))

\* \s+ at i: the position after the run of white space, 0 if there is none
RECURSIVE SpacesEnd(_, _)
SpacesEnd(s, i) ==
    IF i <= Len(s) /\ IsSpace(s[i])
    THEN LET e == SpacesEnd(s, i + 1) IN IF e = 0 THEN i + 1 ELSE e
    ELSE 0

\* [0-9a-z]+ at i with the i flag
RECURSIVE AlnumEnd(_, _)
AlnumEnd(s, i) ==
    IF i <= Len(s) /\ IsAlnum(s[i])
    THEN LET e == AlnumEnd(s, i + 1) IN IF e = 0 THEN i + 1 ELSE e
    ELSE 0

InitiatedPat == <<"t", "h", "i", "s", " ", "a", "c", "t", "i", "o", "n", " ",
                  "i", "n", "i", "t", "i", "a", "t", "e", "d", " ", "b", "y", " ">>

ImagePat == <<"i", "m", "a", "g", "e">>

IdPat == <<"i", "d">>

\* p.match(/^([0-9]+\/[0-9]+\/[0-9]+)(.*)/i): <<>> for null, else <<[1], [2]>>
MatchBeginning(p) ==
    LET e == DateEnd(p, 1) IN
    IF e = 0 THEN <<>>
    ELSE <<SubSeq(p, 1, e - 1), SubSeq(p, e, LineEnd(p, e) - 1)>>

\* p.match(/^this\saction\sinitiated\sby\s(.*)/i): <<>> for null, else <<[1]>>
MatchInitiated(p) ==
    IF PrefixAt(p, 1, InitiatedPat)
    THEN <<SubSeq(p, Len(InitiatedPat) + 1, LineEnd(p, Len(InitiatedPat) + 1) - 1)>>
    ELSE <<>>

\* p.match(/^image\s+id\s+([0-9a-z]+)/i): <<>> for null, else <<[1]>>
MatchImage(p) ==
    IF ~PrefixAt(p, 1, ImagePat) THEN <<>>
    ELSE LET a == SpacesEnd(p, Len(ImagePat) + 1) IN
         IF a = 0 \/ ~PrefixAt(p, a, IdPat) THEN <<>>
         ELSE LET b == SpacesEnd(p, a + Len(IdPat)) IN
              IF b = 0 \/ AlnumEnd(p, b) = 0 THEN <<>>
              ELSE <<SubSeq(p, b, AlnumEnd(p, b) - 1)>>

(***************************************************************************)
(* moment(string, 'MM/DD/YYYY').format('YYYY-MM-DD'), forgiving (non-strict) *)
(* parsing: MM and DD read one or two digits, YYYY one to four, characters *)
(* between a token and the next "/" are skipped, a two-digit year is       *)
(* completed to 19xx or 20xx, and an out-of-range month or day makes the   *)
(* moment invalid, which formats as "Invalid date".                        *)
(***************************************************************************)
RECURSIVE ToInt(_)
ToInt(ds) == IF ds = <<>> THEN 0
             ELSE ToInt(SubSeq(ds, 1, Len(ds) - 1)) * 10 + DigitVal(ds[Len(ds)])

Take(s, n) == SubSeq(s, 1, IF Len(s) < n THEN Len(s) ELSE n)

IsLeapYear(y) == (y % 4 = 0 /\ y % 100 # 0) \/ y % 400 = 0

DaysInMonth(y, m) ==
    IF m = 2 THEN (IF IsLeapYear(y) THEN 29 ELSE 28)
    ELSE IF m \in {4, 6, 9, 11} THEN 30 ELSE 31

\* zero-padded decimal of n, at least w digits
RECURSIVE Pad(_, _)
Pad(n, w) == IF n < 10 /\ w <= 1 THEN <<DigitChars[n + 1]>>
             ELSE Pad(n \div 10, w - 1) \o <<DigitChars[(n % 10) + 1]>>

InvalidDate == <<"I", "n", "v", "a", "l", "i", "d", " ", "d", "a", "t", "e">>

\* d is a date token digits/digits/digits
MomentParse(d) ==
    LET a  == DigitsEnd(d, 1)
        b  == DigitsEnd(d, a + 1)
        c  == DigitsEnd(d, b + 1)
        mm == ToInt(Take(SubSeq(d, 1, a - 1), 2))
        dd == ToInt(Take(SubSeq(d, a + 1, b - 1), 2))
        yr == Take(SubSeq(d, b + 1, c - 1), 4)
        yy == IF Len(yr) = 2
              THEN ToInt(yr) + (IF ToInt(yr) > 68 THEN 1900 ELSE 2000)
              ELSE ToInt(yr)
    IN [valid |-> mm \in 1..12 /\ dd \in 1..DaysInMonth(yy, mm),
        year |-> yy, month |-> mm, day |-> dd]

MomentFormat(m) ==
    IF m.valid
    THEN Pad(m.year, 4) \o <<"-">> \o Pad(m.month, 2) \o <<"-">> \o Pad(m.day, 2)
    ELSE InvalidDate

(***************************************************************************)
(* parseActions.  A JavaScript object is a function from its property      *)
(* names to their values; a property that was never set is not in the      *)
(* domain.                                                                 *)
(***************************************************************************)
EmptyObject == [k \in {} |-> <<>>]

Has(o, k) == k \in DOMAIN o

SetField(o, f, v) == [k \in DOMAIN o \cup {f} |-> IF k = f THEN v ELSE o[k]]

\* a string property is truthy when it is set and not the empty string
Truthy(o, k) == Has(o, k) /\ o[k] # <<>>

OtherSep == <<" ", "|", " ">>

\* one iteration of parts.forEach: st is [actions, action]
ParseChunk(st, part, caseId) ==
    LET p == Trim(part)
        beginning == MatchBeginning(p)
        initiated == MatchInitiated(p)
        image == MatchImage(p)
    IN IF p = <<>> THEN st
       ELSE IF beginning # <<>>
       THEN [actions |-> Append(st.actions, st.action),
             action |-> [caseId |-> caseId,
                         date |-> MomentFormat(MomentParse(beginning[1])),
                         type |-> Trim(beginning[2])]]
       ELSE IF initiated # <<>>
       THEN [st EXCEPT !.action = SetField(@, "intiated", initiated[1])]
       ELSE IF image # <<>>
       THEN [st EXCEPT !.action = SetField(@, "image", image[1])]
       ELSE [st EXCEPT !.action =
                 SetField(@, "other",
                          IF Truthy(@, "other") THEN @.other \o OtherSep \o p ELSE p)]

RECURSIVE ParseLoop(_, _, _, _)
ParseLoop(parts, i, st, caseId) ==
    IF i > Len(parts) THEN st
    ELSE ParseLoop(parts, i + 1, ParseChunk(st, parts[i], caseId), caseId)

\* a mutation of FilterDated: nothing is filtered out
FilterDated_KeepAll(as) == as

\* _.filter(actions, a => a.date)
RECURSIVE FilterDated(_)
FilterDated(as) ==
    IF as = <<>> THEN <<>>
    ELSE (IF Truthy(Head(as), "date") THEN <<Head(as)>> ELSE <<>>)
         \o FilterDated(Tail(as))

parseActions(text, caseId) ==
    FilterDated(ParseLoop(MatchAll(text, 1), 1,
                          [actions |-> <<>>, action |-> EmptyObject], caseId).actions)

(***************************************************************************)
(* Narratives the parser is run on: up to MaxFrags fragments joined by a   *)
(* blank or a line break.                                                  *)
(***************************************************************************)
MaxFrags == 3

FragCaseFiled == <<"1", "/", "2", "/", "2", "0", "2", "0", " ", "C", "a", "s", "e", " ", "F", "i", "l", "e", "d">>

FragAnswerFiled == <<"1", "/", "5", "/", "2", "0", "2", "0", " ", "A", "n", "s", "w", "e", "r", " ", "F", "i", "l", "e", "d">>

FragImage == <<"I", "m", "a", "g", "e", " ", "I", "D", " ", "a", "b", "1", "2">>

FragInitiated == <<"T", "h", "i", "s", " ", "a", "c", "t", "i", "o", "n", " ", "i", "n", "i", "t", "i", "a", "t", "e", "d", " ", "b", "y", " ", "P", "l", "a", "i", "n", "t", "i", "f", "f">>

FragSummons == <<"1", "/", "1", "/", "2", "0", "2", "1", " ", "S", "u", "m", "m", "o", "n", "s", " ", "I", "s", "s", "u", "e", "d">>

FragBadDate == <<"1", "3", "/", "4", "5", "/", "2", "0", "2", "0", " ", "H", "e", "a", "r", "i", "n", "g">>

FragOther == <<"C", "o", "n", "t", "i", "n", "u", "e", "d">>

Fragments == {<<>>, FragCaseFiled, FragAnswerFiled, FragImage, FragInitiated,
              FragSummons, FragBadDate, FragOther}

Separators == {<<" ">>, <<"\n">>}

RECURSIVE Join(_, _)
Join(frags, seps) ==
    IF Len(frags) = 0 THEN <<>>
    ELSE IF Len(frags) = 1 THEN frags[1]
    ELSE frags[1] \o seps[1] \o Join(Tail(frags), Tail(seps))

Narratives ==
    {<<>>} \cup
    UNION {{Join(fs, ss) : fs \in [1..n -> Fragments], ss \in [1..(n - 1) -> Separators]} :
           n \in 1..MaxFrags}

ParserCaseId == "CV2000001"

VARIABLES paPc, paText, paParts, paIdx, paActions, paAction, paResult

paVars == <<paPc, paText, paParts, paIdx, paActions, paAction, paResult>>

\* parseActions is not running
PaIdle ==
    /\ paPc = "idle"
    /\ paText = <<>>
    /\ paParts = <<>>
    /\ paIdx = 1
    /\ paActions = <<>>
    /\ paAction = EmptyObject
    /\ paResult = <<>>

\* parseActions(text, caseId) is called
PaInit ==
    /\ paPc = "match"
    /\ paText \in Narratives
    /\ paParts = <<>>
    /\ paIdx = 1
    /\ paActions = <<>>
    /\ paAction = EmptyObject
    /\ paResult = <<>>

\* let parts = text.match(actionReg); let action = {}
PaMatch ==
    /\ paPc = "match"
    /\ paParts' = MatchAll(paText, 1)
    /\ paPc' = "forEach"
    /\ UNCHANGED <<paText, paIdx, paActions, paAction, paResult>>

\* one call of the forEach callback
PaChunk ==
    /\ paPc = "forEach"
    /\ paIdx <= Len(paParts)
    /\ LET st == ParseChunk([actions |-> paActions, action |-> paAction],
                            paParts[paIdx], ParserCaseId)
       IN /\ paActions' = st.actions
          /\ paAction' = st.action
    /\ paIdx' = paIdx + 1
    /\ UNCHANGED <<paPc, paText, paParts, paResult>>

\* return _.filter(actions, a => a.date)
PaReturn ==
    /\ paPc = "forEach"
    /\ paIdx > Len(paParts)
    /\ paResult' = FilterDated(paActions)
    /\ paPc' = "done"
    /\ UNCHANGED <<paText, paParts, paIdx, paActions, paAction>>

PaNext == PaMatch \/ PaChunk \/ PaReturn

(***************************************************************************)
(* The upstream service: what a request can be answered with.  A page is   *)
(* the HTML of a case page reduced to what the selectors of getCase read.  *)
(***************************************************************************)
CaseIds == {"CV2000001", "CR2100002"}

\* hrefs of the links of the register-of-actions panel
HrefAb12 == <<"/", "d", "o", "c", "?", "i", "d", "=", "a", "b", "1", "2", "&", "t", "=", "1">>

HrefCd34 == <<"/", "d", "o", "c", "?", "i", "d", "=", "c", "d", "3", "4", "&", "t", "=", "1">>

HrefNoId == <<"/", "d", "o", "c", "?", "f", "i", "l", "e", "=", "a", "b", "1", "2">>

\* register-of-actions panel texts, one entry per line
NarrThree == Join(<<FragAnswerFiled, FragImage, FragInitiated, FragCaseFiled, FragSummons>>,
                  <<<<"\n">>, <<"\n">>, <<"\n">>, <<"\n">>>>)

NarrTwo == Join(<<FragAnswerFiled, FragImage, FragCaseFiled>>, <<<<"\n">>, <<"\n">>>>)

NoPanels == [summary |-> "", party |-> "", offense |-> "", officers |-> "",
             schedule |-> "", finances |-> "", costs |-> <<>>,
             narrative |-> <<>>, links |-> <<>>]

PageFull ==
    [NoPanels EXCEPT !.summary = "summary", !.party = "parties", !.offense = "offense",
                     !.officers = "officers", !.schedule = "schedule",
                     !.finances = "finances",
                     !.costs = <<[incurredBy |-> "Defendant", account |-> "Fees",
                                  date |-> <<"3", "/", "4", "/", "2", "0", "2", "0">>,
                                  amount |-> "10.00"]>>,
                     !.narrative = NarrThree, !.links = <<HrefAb12, HrefCd34>>]

PageShort ==
    [NoPanels EXCEPT !.summary = "summary2", !.party = "parties2",
                     !.narrative = NarrTwo]

PageNoId ==
    [NoPanels EXCEPT !.summary = "summary", !.party = "parties",
                     !.narrative = NarrTwo, !.links = <<HrefNoId, HrefAb12>>]

\* the body of an error status that still carries a register of actions
PageError ==
    [NoPanels EXCEPT !.summary = "summary", !.narrative = NarrTwo,
                     !.links = <<HrefAb12>>]

\* the responses to the case request: a transport error (no response), or a
\* status code with a body.  The first case has attachments upstream, the
\* second has none.
CaseResponses(caseId) ==
    {[error |-> TRUE, statusCode |-> 0, banner |-> "", page |-> NoPanels],
     [error |-> FALSE, statusCode |-> 404, banner |-> "", page |-> NoPanels],
     [error |-> FALSE, statusCode |-> 200, banner |-> "", page |-> PageShort]}
    \cup
    (IF caseId = "CV2000001"
     THEN {[error |-> FALSE, statusCode |-> 200, banner |-> "No case found",
            page |-> NoPanels],
           [error |-> FALSE, statusCode |-> 500, banner |-> "", page |-> PageError],
           [error |-> FALSE, statusCode |-> 200, banner |-> "", page |-> PageFull],
           [error |-> FALSE, statusCode |-> 200, banner |-> "", page |-> PageNoId]}
     ELSE {})

NoResponse == [error |-> FALSE, statusCode |-> 0, banner |-> "", page |-> NoPanels]

\* the responses to an attachment request
ActionResponses ==
    {[error |-> TRUE, statusCode |-> 0],
     [error |-> FALSE, statusCode |-> 500],
     [error |-> FALSE, statusCode |-> 200]}

(***************************************************************************)
(* Command line and environment of one run of the program                  *)
(***************************************************************************)
MaxCsvRows == 2

MaxRuns == 2

\* default of the --cache option, in seconds
DefaultCache == 86400

\* argv.cache: "false" for --no-cache, else the seconds
CacheOptions == {"false", "seconds"}

\* the cells of the --csv-column column of the input CSV; "" is an empty cell
CsvCells == CaseIds \cup {""}

CsvFiles == UNION {[1..n -> CsvCells] : n \in 0..MaxCsvRows}

\* argv.caseId is "" and argv.csv is FALSE when the option is not given;
\* csvFile is the content of the file at argv.csv, <<"missing">> when there is
\* no such file
Argvs ==
    {[caseId |-> c, csv |-> FALSE, csvFile |-> <<>>, new |-> n, cache |-> t] :
         c \in CaseIds, n \in BOOLEAN, t \in CacheOptions}
    \cup {[caseId |-> "", csv |-> TRUE, csvFile |-> f, new |-> n, cache |-> t] :
         f \in CsvFiles \cup {<<"missing">>}, n \in BOOLEAN, t \in CacheOptions}
    \cup {[caseId |-> "", csv |-> FALSE, csvFile |-> <<>>, new |-> n, cache |-> t] :
         n \in BOOLEAN, t \in CacheOptions}

\* const TTL = argv.cache === false ? 0 : parseInt(argv.cache) * 1000
TTL(a) == IF a.cache = "false" THEN 0 ELSE DefaultCache * 1000

(***************************************************************************)
(* Download markers and keyed stores                                       *)
(***************************************************************************)
\* caseDownloads[caseId], actionsDownloads[key] as a condition
Marked(downloads, key) == Has(downloads, key) /\ downloads[key]

\* `${caseId}-${id}`
ActionKey(caseId, id) == <<caseId, id>>

\* a mutation of ForcedTTL: the marker does not override the time-to-live
ForcedTTL_Configured(downloads, key, ttl) == ttl

\* let caseTTL = TTL; if (caseDownloads[caseId]) { caseTTL = 0; } and the same
\* for actionTTL
ForcedTTL(downloads, key, ttl) == IF Marked(downloads, key) THEN 0 ELSE ttl

\* a mutation of BeginDownload: the key is not marked
BeginDownload_Unmarked(downloads, key) == downloads

\* caseDownloads[caseId] = true, actionsDownloads[key] = true
BeginDownload(downloads, key) == SetField(downloads, key, TRUE)

\* caseDownloads[caseId] = false, actionsDownloads[key] = false
EndDownload(downloads, key) == SetField(downloads, key, FALSE)

\* a mutation of Upsert: the row is added whether or not its key is present
Upsert_Append(store, keyField, row) == Append(store, row)

\* summary[key] = row, actions[key] = row: a JavaScript object keeps its
\* properties in insertion order, so a store is the sequence of its rows
Upsert(store, keyField, row) ==
    IF \E i \in 1..Len(store) : store[i][keyField] = row[keyField]
    THEN [i \in 1..Len(store) |->
             IF store[i][keyField] = row[keyField] THEN row ELSE store[i]]
    ELSE Append(store, row)

RECURSIVE UpsertAll(_, _, _)
UpsertAll(store, keyField, rows) ==
    IF rows = <<>> THEN store
    ELSE UpsertAll(Upsert(store, keyField, Head(rows)), keyField, Tail(rows))

\* csv.parse(csv.format(rows)): the columns are the union of the rows'
\* properties and a property a row does not have is read back as ""
Columns(rows) == UNION {DOMAIN rows[i] : i \in 1..Len(rows)}

CsvRoundTrip(rows) ==
    [i \in 1..Len(rows) |->
        [k \in Columns(rows) |-> IF Has(rows[i], k) THEN rows[i][k] ELSE <<>>]]

RECURSIVE SelectRows(_, _)
SelectRows(rows, keyField) ==
    IF rows = <<>> THEN <<>>
    ELSE (IF keyField = "" \/ (Has(Head(rows), keyField) /\ Head(rows)[keyField] # "")
          THEN <<Head(rows)>> ELSE <<>>)
         \o SelectRows(Tail(rows), keyField)

\* _.mapKeys(_.filter(csv.parse(file)), keyField)
LoadStore(file, keyField) == UpsertAll(<<>>, keyField, file)

\* csv.format(_.filter(_.map(summary, d => d), 'caseId')), as read back
summarySave(summary) == CsvRoundTrip(SelectRows(summary, "caseId"))

\* csv.format(_.filter(_.map(actions, d => d))), as read back
actionsSave(actions) == CsvRoundTrip(SelectRows(actions, ""))

(***************************************************************************)
(* Pieces of getCase and downloadAction                                    *)
(***************************************************************************)
\* [0-9a-z-_]+ at i with the i flag
RECURSIVE IdCharsEnd(_, _)
IdCharsEnd(s, i) ==
    IF i <= Len(s) /\ (IsAlnum(s[i]) \/ s[i] \in {"-", "_"})
    THEN LET e == IdCharsEnd(s, i + 1) IN IF e = 0 THEN i + 1 ELSE e
    ELSE 0

IdEqPat == <<"i", "d", "=">>

\* a.match(/id=([0-9a-z-_]+)&/i), tried at every position from i on:
\* <<>> for null, else <<[1]>>
RECURSIVE MatchHrefId(_, _)
MatchHrefId(a, i) ==
    IF i > Len(a) THEN <<>>
    ELSE LET e == IF PrefixAt(a, i, IdEqPat) THEN IdCharsEnd(a, i + 3) ELSE 0 IN
         IF e # 0 /\ e <= Len(a) /\ a[e] = "&"
         THEN <<SubSeq(a, i + 3, e - 1)>>
         ELSE MatchHrefId(a, i + 1)

\* the rows of the court-costs table (lines 294-318)
CostRows(caseId, costs) ==
    [i \in 1..Len(costs) |->
        [caseId |-> caseId, incurredBy |-> costs[i].incurredBy,
         account |-> costs[i].account,
         date |-> MomentFormat(MomentParse(costs[i].date)),
         amount |-> costs[i].amount]]

\* the data object getCase builds from the page (lines 236-333), one
\* assignment after the other
BuildData(caseId, page) ==
    LET d0 == [caseId |-> caseId]
        d1 == SetField(d0, "summary", page.summary)
        d2 == SetField(d1, "parties", page.party)
        d3 == SetField(d2, "parties", page.offense)
        d4 == SetField(d3, "arrestingOfficers", page.officers)
        d5 == SetField(d4, "schedule", page.schedule)
        d6 == SetField(d5, "costs", CostRows(caseId, page.costs))
        d7 == SetField(d6, "finances", page.finances)
        d8 == SetField(d7, "actionsRaw", Trim(page.narrative))
    IN SetField(d8, "actions", parseActions(d8.actionsRaw, caseId))

\* _.omit(data, ['costs', 'actions'])
OmitCostsActions(data) == [k \in DOMAIN data \ {"costs", "actions"} |-> data[k]]

\* a.id = `${caseId}-${ai}` for every action, ai counted from 0
WithIds(caseId, as) ==
    [i \in 1..Len(as) |-> SetField(as[i], "id", <<caseId, i - 1>>)]

\* _.find(actions, a => a.caseId === caseId && a.image === id)
FindAction(as, caseId, id) ==
    LET hits == {i \in 1..Len(as) :
                    as[i].caseId = caseId /\ Has(as[i], "image") /\ as[i].image = id}
    IN IF hits = {} THEN EmptyObject
       ELSE as[CHOOSE i \in hits : \A j \in hits : i <= j]

UnknownDate == <<"u", "n", "k", "n", "o", "w", "n", "-", "d", "a", "t", "e", "-">>

\* the path of the downloaded attachment (lines 473-478)
PdfName(action, caseId, id) ==
    [date |-> IF Truthy(action, "date") THEN action.date ELSE UnknownDate,
     caseId |-> caseId, id |-> id]

\* resolve and reject settle a promise once; later calls change nothing
Settle(promise, outcome) == IF promise = "pending" THEN outcome ELSE promise

NoCall == [caseId |-> "", caseDownloads |-> EmptyObject, caseTTL |-> 0,
           promise |-> "none", response |-> NoResponse, data |-> EmptyObject,
           actionLinks |-> <<>>, link |-> 1]

NoDownload == [url |-> <<>>, id |-> <<>>, actionsDownloads |-> EmptyObject,
               actionTTL |-> 0, action |-> EmptyObject, promise |-> "none"]

NoRequest == [outstanding |-> FALSE, kind |-> "none", caseId |-> "", id |-> <<>>,
              ttl |-> 0]

\* what the claims need to remember of the run: the case ids getCase was
\* called with, the case ids whose call failed, the marker read when the last
\* fetch of a key began, what the current getCase call and the fetches of
\* this run have written, the attachment ids the current getCase call has
\* passed to downloadAction and those whose download failed, and the number
\* of requests issued and not yet answered
NoHistory == [attempted |-> <<>>, failed |-> {}, markedAtStart |-> FALSE,
              begunCases |-> {}, writtenCases |-> {},
              begunActions |-> {}, writtenActions |-> {}, callWrites |-> {},
              callDownloads |-> <<>>, callFailed |-> {}, inFlight |-> 0]

VARIABLES
    caseDownloadsFile, actionsDownloadsFile, rawHtmlFiles, caseFiles, pdfFiles,
    summaryFile, actionsFile,
    procState, exitCode, run, nodeStrict, argv, summary, actions,
    pc, driver, rowIdx, gc, da, request, unhandled, hist

diskVars == <<caseDownloadsFile, actionsDownloadsFile, rawHtmlFiles, caseFiles,
              pdfFiles, summaryFile, actionsFile>>

procVars == <<procState, exitCode, run, nodeStrict, argv, summary, actions,
              pc, driver, rowIdx, gc, da, request, unhandled, hist>>

vars == <<diskVars, procVars, paVars>>

\* what no step of a request callback changes
calleeFixed == <<procState, exitCode, run, nodeStrict, argv, driver, rowIdx, paVars>>

(***************************************************************************)
(* The program.  pc is the statement the single JavaScript thread is at;   *)
(* "loop" is the event loop, where the thread waits for a response, or     *)
(* the continuation of an await runs, or the process ends.                 *)
(***************************************************************************)
Init ==
    /\ caseDownloadsFile = EmptyObject
    /\ actionsDownloadsFile = EmptyObject
    /\ rawHtmlFiles = {}
    /\ caseFiles = {}
    /\ pdfFiles = {}
    /\ summaryFile = <<>>
    /\ actionsFile = <<>>
    /\ procState = "running"
    /\ exitCode = 0
    /\ run = 1
    /\ nodeStrict \in BOOLEAN
    /\ argv \in Argvs
    /\ summary = <<>>
    /\ actions = <<>>
    /\ pc = "main"
    /\ driver = "none"
    /\ rowIdx = 1
    /\ gc = NoCall
    /\ da = NoDownload
    /\ request = NoRequest
    /\ unhandled = FALSE
    /\ hist = NoHistory
    /\ PaIdle

Running(at) == procState = "running" /\ pc = at

\* process.exit(code), or the end of the process
Exit(code) ==
    /\ procState' = "exited"
    /\ exitCode' = code

\* main (lines 108-119)
Main ==
    /\ Running("main")
    /\ IF argv.caseId # ""
       THEN /\ pc' = "getCase"
            /\ driver' = "main"
            /\ gc' = [NoCall EXCEPT !.caseId = argv.caseId]
            /\ UNCHANGED <<procState, exitCode>>
       ELSE IF argv.csv
       THEN /\ pc' = "getCases"
            /\ driver' = "getCases"
            /\ UNCHANGED <<procState, exitCode, gc>>
       ELSE /\ Exit(1)
            /\ UNCHANGED <<pc, driver, gc>>
    /\ UNCHANGED <<diskVars, run, nodeStrict, argv, summary, actions, rowIdx, da,
                   request, unhandled, hist, paVars>>

\* getCases up to the loop (lines 123-141)
GetCases ==
    /\ Running("getCases")
    /\ IF \/ argv.csvFile = <<"missing">>
          \/ Len(argv.csvFile) = 0
          \/ argv.csvFile[1] = ""
       THEN /\ Exit(1)
            /\ UNCHANGED <<pc, rowIdx>>
       ELSE /\ pc' = "forRow"
            /\ rowIdx' = 1
            /\ UNCHANGED <<procState, exitCode>>
    /\ UNCHANGED <<diskVars, run, nodeStrict, argv, summary, actions, driver, gc, da,
                   request, unhandled, hist, paVars>>

\* for (let row of inputCsv) (lines 144-147): the next row, or the return of
\* getCases and of main
ForRow ==
    /\ Running("forRow")
    /\ IF rowIdx > Len(argv.csvFile)
       THEN /\ pc' = "loop"
            /\ driver' = "done"
            /\ UNCHANGED <<rowIdx, gc>>
       ELSE IF argv.csvFile[rowIdx] = ""
       THEN /\ rowIdx' = rowIdx + 1
            /\ UNCHANGED <<pc, driver, gc>>
       ELSE /\ pc' = "getCase"
            /\ gc' = [NoCall EXCEPT !.caseId = argv.csvFile[rowIdx]]
            /\ UNCHANGED <<rowIdx, driver>>
    /\ UNCHANGED <<diskVars, procState, exitCode, run, nodeStrict, argv, summary,
                   actions, da, request, unhandled, hist, paVars>>

\* getCase up to the promise (lines 160-184): read the markers, choose the
\* time-to-live, mark the case as downloading
GetCaseEnter ==
    /\ Running("getCase")
    /\ LET caseId == gc.caseId
           caseDownloads == caseDownloadsFile
           caseTTL == ForcedTTL(caseDownloads, caseId, TTL(argv))
           marked == BeginDownload(caseDownloads, caseId)
       IN /\ gc' = [gc EXCEPT !.caseDownloads = marked, !.caseTTL = caseTTL,
                              !.promise = "pending"]
          /\ caseDownloadsFile' = marked
          /\ hist' = [hist EXCEPT !.attempted = Append(@, caseId),
                                  !.markedAtStart = Marked(caseDownloadsFile, caseId),
                                  !.begunCases = @ \cup {caseId},
                                  !.writtenCases = @ \ {caseId},
                                  !.callWrites = {},
                                  !.callDownloads = <<>>,
                                  !.callFailed = {}]
    /\ request' = NoRequest
    /\ pc' = "executor"
    /\ UNCHANGED <<actionsDownloadsFile, rawHtmlFiles, caseFiles, pdfFiles, summaryFile,
                   actionsFile, procState, exitCode, run, nodeStrict, argv, summary,
                   actions, driver, rowIdx, da, unhandled, paVars>>

\* the promise executor (lines 187-222): return early under --new, or issue
\* the request
GetCaseExecutor ==
    /\ Running("executor")
    /\ IF argv.new /\ gc.caseId \in rawHtmlFiles
       THEN /\ gc' = [gc EXCEPT !.promise = Settle(@, "resolved")]
            /\ UNCHANGED <<request, hist>>
       ELSE /\ request' = [outstanding |-> TRUE, kind |-> "case",
                           caseId |-> gc.caseId, id |-> <<>>, ttl |-> gc.caseTTL]
            /\ hist' = [hist EXCEPT !.inFlight = @ + 1]
            /\ UNCHANGED gc
    /\ pc' = "loop"
    /\ UNCHANGED <<diskVars, procState, exitCode, run, nodeStrict, argv, summary,
                   actions, driver, rowIdx, da, unhandled, paVars>>

\* the awaiting caller has a settled promise to continue with
DriverPending == driver \in {"main", "getCases"} /\ gc.promise \in {"resolved", "rejected"}

\* an unhandled rejection ends the process on a Node.js that treats it as fatal
FatalPending == unhandled /\ nodeStrict

\* a mutation of AfterRow: the loop of getCases goes on after a failed case
AfterRow_AlwaysNext(promise) == "next"

\* try { await getCase(...) } catch (e) { ...; process.exit(1) } (lines 145-154)
AfterRow(promise) == IF promise = "resolved" THEN "next" ELSE "exit"

\* the continuation of await getCase(...) in getCases (lines 146-154) and in
\* main (line 110)
DriverContinue ==
    /\ Running("loop")
    /\ DriverPending
    /\ IF driver = "getCases"
       THEN IF AfterRow(gc.promise) = "next"
            THEN /\ rowIdx' = rowIdx + 1
                 /\ pc' = "forRow"
                 /\ UNCHANGED <<procState, exitCode, driver, unhandled>>
            ELSE /\ Exit(1)
                 /\ UNCHANGED <<rowIdx, pc, driver, unhandled>>
       ELSE /\ driver' = "done"
            /\ unhandled' = (unhandled \/ gc.promise = "rejected")
            /\ UNCHANGED <<procState, exitCode, rowIdx, pc>>
    /\ UNCHANGED <<diskVars, run, nodeStrict, argv, summary, actions, gc, da, request,
                   hist, paVars>>

\* the process dies of an unhandled rejection
UnhandledRejection ==
    /\ Running("loop")
    /\ ~DriverPending
    /\ FatalPending
    /\ Exit(1)
    /\ UNCHANGED <<diskVars, run, nodeStrict, argv, summary, actions, pc, driver,
                   rowIdx, gc, da, request, unhandled, hist, paVars>>

\* nothing is left to run and no request is outstanding: the process ends
ProcessEnd ==
    /\ Running("loop")
    /\ ~DriverPending
    /\ ~FatalPending
    /\ ~request.outstanding
    /\ Exit(0)
    /\ UNCHANGED <<diskVars, run, nodeStrict, argv, summary, actions, pc, driver,
                   rowIdx, gc, da, request, unhandled, hist, paVars>>

\* the response to the case request arrives and its callback is called
CaseResponse ==
    /\ Running("loop")
    /\ ~DriverPending
    /\ ~FatalPending
    /\ request.outstanding
    /\ request.kind = "case"
    /\ \E r \in CaseResponses(gc.caseId) : gc' = [gc EXCEPT !.response = r]
    /\ request' = [request EXCEPT !.outstanding = FALSE]
    /\ hist' = [hist EXCEPT !.inFlight = @ - 1]
    /\ pc' = "callback"
    /\ UNCHANGED <<diskVars, procState, exitCode, run, nodeStrict, argv, summary,
                   actions, driver, rowIdx, da, unhandled, paVars>>

\* the callback's checks of error and status (lines 224-230).  Neither branch
\* returns: after a transport error response is undefined, so the read of
\* response.statusCode throws and ends the callback; after a status >= 300
\* the callback goes on.
CallbackCheck ==
    /\ Running("callback")
    /\ IF gc.response.error
       THEN /\ gc' = [gc EXCEPT !.promise = Settle(@, "rejected")]
            /\ hist' = [hist EXCEPT !.failed = @ \cup {gc.caseId}]
            /\ unhandled' = TRUE
            /\ pc' = "loop"
       ELSE IF gc.response.statusCode >= 300
       THEN /\ gc' = [gc EXCEPT !.promise = Settle(@, "rejected")]
            /\ hist' = [hist EXCEPT !.failed = @ \cup {gc.caseId}]
            /\ pc' = "writeRaw"
            /\ UNCHANGED unhandled
       ELSE /\ pc' = "writeRaw"
            /\ UNCHANGED <<gc, hist, unhandled>>
    /\ UNCHANGED <<diskVars, procState, exitCode, run, nodeStrict, argv, summary,
                   actions, driver, rowIdx, da, request, paVars>>

\* fs.writeFileSync(rawOutputHTML, body.toString()) (line 233)
WriteRaw ==
    /\ Running("writeRaw")
    /\ rawHtmlFiles' = rawHtmlFiles \cup {gc.caseId}
    /\ hist' = [hist EXCEPT !.writtenCases = @ \cup {gc.caseId},
                            !.callWrites = @ \cup {"html"}]
    /\ pc' = "banner"
    /\ UNCHANGED <<caseDownloadsFile, actionsDownloadsFile, caseFiles, pdfFiles,
                   summaryFile, actionsFile, summary, actions, gc, da, request,
                   unhandled, calleeFixed>>

\* the check for an error banner (lines 241-256): the promise is rejected and
\* the callback goes on
CheckBanner ==
    /\ Running("banner")
    /\ IF gc.response.banner # ""
       THEN /\ gc' = [gc EXCEPT !.promise = Settle(@, "rejected")]
            /\ hist' = [hist EXCEPT !.failed = @ \cup {gc.caseId}]
       ELSE UNCHANGED <<gc, hist>>
    /\ pc' = "parse"
    /\ UNCHANGED <<diskVars, summary, actions, da, request, unhandled, calleeFixed>>

\* the panels and parseActions (lines 258-333)
ParsePanels ==
    /\ Running("parse")
    /\ gc' = [gc EXCEPT !.data = BuildData(gc.caseId, gc.response.page)]
    /\ pc' = "mark"
    /\ UNCHANGED <<diskVars, summary, actions, da, request, unhandled, hist,
                   calleeFixed>>

\* caseDownloads[caseId] = false and its write (lines 335-337)
MarkCaseDone ==
    /\ Running("mark")
    /\ LET done == EndDownload(gc.caseDownloads, gc.caseId)
       IN /\ gc' = [gc EXCEPT !.caseDownloads = done]
          /\ caseDownloadsFile' = done
    /\ pc' = "links"
    /\ UNCHANGED <<actionsDownloadsFile, rawHtmlFiles, caseFiles, pdfFiles, summaryFile,
                   actionsFile, summary, actions, da, request, unhandled, hist,
                   calleeFixed>>

\* the hrefs of the links of the panel (lines 339-346)
CollectLinks ==
    /\ Running("links")
    /\ gc' = [gc EXCEPT !.actionLinks = gc.response.page.links, !.link = 1]
    /\ pc' = "forLink"
    /\ UNCHANGED <<diskVars, summary, actions, da, request, unhandled, hist,
                   calleeFixed>>

\* for (let a of actionLinks) (lines 347-357): the id of the next link and the
\* call of downloadAction; a.match(...) is null for a link without an id, and
\* null[1] throws and ends the callback
ForLink ==
    /\ Running("forLink")
    /\ IF gc.link > Len(gc.actionLinks)
       THEN /\ pc' = "saveCaseFiles"
            /\ UNCHANGED <<da, unhandled>>
       ELSE LET a == gc.actionLinks[gc.link]
                m == MatchHrefId(a, 1)
            IN IF m = <<>>
               THEN /\ unhandled' = TRUE
                    /\ pc' = "loop"
                    /\ UNCHANGED da
               ELSE /\ da' = [NoDownload EXCEPT !.url = a, !.id = m[1]]
                    /\ pc' = "downloadAction"
                    /\ UNCHANGED unhandled
    /\ UNCHANGED <<diskVars, summary, actions, gc, request, hist, calleeFixed>>

\* downloadAction up to the promise (lines 407-432)
DownloadActionEnter ==
    /\ Running("downloadAction")
    /\ LET key == ActionKey(gc.caseId, da.id)
           actionsDownloads == actionsDownloadsFile
           actionTTL == ForcedTTL(actionsDownloads, key, TTL(argv))
           marked == BeginDownload(actionsDownloads, key)
       IN /\ da' = [da EXCEPT !.actionsDownloads = marked, !.actionTTL = actionTTL,
                              !.action = FindAction(gc.data.actions, gc.caseId, da.id),
                              !.promise = "pending"]
          /\ actionsDownloadsFile' = marked
          /\ hist' = [hist EXCEPT !.markedAtStart = Marked(actionsDownloadsFile, key),
                                  !.begunActions = @ \cup {key},
                                  !.writtenActions = @ \ {key},
                                  !.callDownloads = Append(@, da.id)]
    /\ request' = NoRequest
    /\ pc' = "actionExecutor"
    /\ UNCHANGED <<caseDownloadsFile, rawHtmlFiles, caseFiles, pdfFiles, summaryFile,
                   actionsFile, summary, actions, gc, unhandled, calleeFixed>>

\* the promise executor of downloadAction (lines 435-449): issue the request;
\* getCase awaits the promise
DownloadActionExecutor ==
    /\ Running("actionExecutor")
    /\ request' = [outstanding |-> TRUE, kind |-> "action", caseId |-> gc.caseId,
                   id |-> da.id, ttl |-> da.actionTTL]
    /\ hist' = [hist EXCEPT !.inFlight = @ + 1]
    /\ pc' = "loop"
    /\ UNCHANGED <<diskVars, summary, actions, gc, da, unhandled, calleeFixed>>

\* a mutation of OnDownloadRejected: the rejection is not caught
OnDownloadRejected_Throw == "throw"

\* try { await downloadAction(...) } catch (e) { console.error(...) } (lines
\* 350-365): the rejection is logged and the loop takes the next link
OnDownloadRejected == "next"

\* the response to the attachment request arrives (lines 450-462): on an error
\* or a status >= 300 the promise is rejected, getCase catches (lines 360-365)
\* and takes the next link
ActionResponse ==
    /\ Running("loop")
    /\ ~DriverPending
    /\ ~FatalPending
    /\ request.outstanding
    /\ request.kind = "action"
    /\ request' = [request EXCEPT !.outstanding = FALSE]
    /\ \E r \in ActionResponses :
          IF r.error \/ r.statusCode >= 300
          THEN /\ da' = [da EXCEPT !.promise = Settle(@, "rejected")]
               /\ hist' = [hist EXCEPT !.inFlight = @ - 1,
                                       !.callFailed = @ \cup {da.id}]
               /\ IF OnDownloadRejected = "next"
                  THEN /\ gc' = [gc EXCEPT !.link = @ + 1]
                       /\ pc' = "forLink"
                       /\ UNCHANGED unhandled
                  ELSE /\ unhandled' = TRUE
                       /\ pc' = "loop"
                       /\ UNCHANGED gc
          ELSE /\ pc' = "markAction"
               /\ hist' = [hist EXCEPT !.inFlight = @ - 1]
               /\ UNCHANGED <<da, gc, unhandled>>
    /\ UNCHANGED <<diskVars, summary, actions, calleeFixed>>

\* actionsDownloads[key] = false and its write (lines 464-469)
MarkActionDone ==
    /\ Running("markAction")
    /\ LET done == EndDownload(da.actionsDownloads, ActionKey(gc.caseId, da.id))
       IN /\ da' = [da EXCEPT !.actionsDownloads = done]
          /\ actionsDownloadsFile' = done
    /\ pc' = "writePdf"
    /\ UNCHANGED <<caseDownloadsFile, rawHtmlFiles, caseFiles, pdfFiles, summaryFile,
                   actionsFile, summary, actions, gc, request, unhandled, hist,
                   calleeFixed>>

\* the write of the attachment and resolve() (lines 471-481); getCase takes
\* the next link (line 358)
WritePdf ==
    /\ Running("writePdf")
    /\ pdfFiles' = pdfFiles \cup {PdfName(da.action, gc.caseId, da.id)}
    /\ da' = [da EXCEPT !.promise = Settle(@, "resolved")]
    /\ gc' = [gc EXCEPT !.link = @ + 1]
    /\ hist' = [hist EXCEPT !.writtenActions = @ \cup {ActionKey(gc.caseId, da.id)}]
    /\ pc' = "forLink"
    /\ UNCHANGED <<caseDownloadsFile, actionsDownloadsFile, rawHtmlFiles, caseFiles,
                   summaryFile, actionsFile, summary, actions, request, unhandled,
                   calleeFixed>>

\* the per-case files: costs, actions and summary CSV, and the JSON copy
\* (lines 369-387)
CaseFileKinds == {"costs.csv", "actions.csv", "csv", "json"}

SaveCaseFiles ==
    /\ Running("saveCaseFiles")
    /\ caseFiles' = caseFiles \cup {<<gc.caseId, kind>> : kind \in CaseFileKinds}
    /\ hist' = [hist EXCEPT !.callWrites = @ \cup CaseFileKinds]
    /\ pc' = "saveActions"
    /\ UNCHANGED <<caseDownloadsFile, actionsDownloadsFile, rawHtmlFiles, pdfFiles,
                   summaryFile, actionsFile, summary, actions, gc, da, request,
                   unhandled, calleeFixed>>

\* the actions store (lines 389-394)
SaveActions ==
    /\ Running("saveActions")
    /\ LET rows == WithIds(gc.caseId, gc.data.actions)
           merged == UpsertAll(actions, "id", rows)
       IN /\ gc' = [gc EXCEPT !.data = SetField(@, "actions", rows)]
          /\ actions' = merged
          /\ actionsFile' = actionsSave(merged)
          /\ hist' = [hist EXCEPT !.callWrites =
                         @ \cup (IF rows = <<>> THEN {} ELSE {"actionsStore"})]
    /\ pc' = "saveSummary"
    /\ UNCHANGED <<caseDownloadsFile, actionsDownloadsFile, rawHtmlFiles, caseFiles,
                   pdfFiles, summaryFile, summary, da, request, unhandled, calleeFixed>>

\* the summary store (lines 396-398)
SaveSummary ==
    /\ Running("saveSummary")
    /\ LET merged == Upsert(summary, "caseId", OmitCostsActions(gc.data))
       IN /\ summary' = merged
          /\ summaryFile' = summarySave(merged)
    /\ hist' = [hist EXCEPT !.callWrites = @ \cup {"summaryStore"}]
    /\ pc' = "resolve"
    /\ UNCHANGED <<caseDownloadsFile, actionsDownloadsFile, rawHtmlFiles, caseFiles,
                   pdfFiles, actionsFile, actions, gc, da, request, unhandled,
                   calleeFixed>>

\* resolve(data) (line 400), the end of the callback
Resolve ==
    /\ Running("resolve")
    /\ gc' = [gc EXCEPT !.promise = Settle(@, "resolved")]
    /\ pc' = "loop"
    /\ UNCHANGED <<diskVars, summary, actions, da, request, unhandled, hist,
                   calleeFixed>>

\* the process is killed, at any statement or while it waits: its memory and
\* its outstanding request are lost, the files stay as they are
Crash ==
    /\ procState = "running"
    /\ procState' = "crashed"
    /\ summary' = <<>>
    /\ actions' = <<>>
    /\ pc' = "main"
    /\ driver' = "none"
    /\ rowIdx' = 1
    /\ gc' = NoCall
    /\ da' = NoDownload
    /\ request' = NoRequest
    /\ unhandled' = FALSE
    /\ hist' = [hist EXCEPT !.inFlight = 0]
    /\ UNCHANGED <<diskVars, exitCode, run, nodeStrict, argv, paVars>>

\* the program is started again on the same disk (lines 58-105)
Restart ==
    /\ procState \in {"exited", "crashed"}
    /\ run < MaxRuns
    /\ run' = run + 1
    /\ procState' = "running"
    /\ exitCode' = 0
    /\ argv' \in Argvs
    /\ summary' = LoadStore(summaryFile, "caseId")
    /\ actions' = LoadStore(actionsFile, "id")
    /\ pc' = "main"
    /\ driver' = "none"
    /\ rowIdx' = 1
    /\ gc' = NoCall
    /\ da' = NoDownload
    /\ request' = NoRequest
    /\ unhandled' = FALSE
    /\ hist' = NoHistory
    /\ UNCHANGED <<diskVars, nodeStrict, paVars>>

Next ==
    \/ Main \/ GetCases \/ ForRow \/ GetCaseEnter \/ GetCaseExecutor
    \/ DriverContinue \/ UnhandledRejection \/ ProcessEnd
    \/ CaseResponse \/ CallbackCheck \/ WriteRaw \/ CheckBanner \/ ParsePanels
    \/ MarkCaseDone \/ CollectLinks \/ ForLink
    \/ DownloadActionEnter \/ DownloadActionExecutor \/ ActionResponse
    \/ MarkActionDone \/ WritePdf
    \/ SaveCaseFiles \/ SaveActions \/ SaveSummary
    \/ Resolve \/ Crash \/ Restart

Spec == Init /\ [][Next]_vars

(***************************************************************************)
(* One invocation of the program under fair scheduling: the single thread  *)
(* runs on while it has a statement to run, a continuation that is ready   *)
(* is run, and a request is answered (with a response, or with an error    *)
(* when the timeout of the request expires).  The process may still be     *)
(* killed at any moment.                                                   *)
(***************************************************************************)
\* the steps of the program but the extraction of the panels
Statements ==
    \/ Main \/ GetCases \/ ForRow \/ GetCaseEnter \/ GetCaseExecutor
    \/ DriverContinue \/ UnhandledRejection \/ ProcessEnd
    \/ CaseResponse \/ CallbackCheck \/ WriteRaw \/ CheckBanner
    \/ MarkCaseDone \/ CollectLinks \/ ForLink
    \/ DownloadActionEnter \/ DownloadActionExecutor \/ ActionResponse
    \/ MarkActionDone \/ WritePdf
    \/ SaveCaseFiles \/ SaveActions \/ SaveSummary
    \/ Resolve

\* the thread leaves the extraction of the panels: ParsePanels is enabled
\* exactly when the thread is there, and it is the only step from there to
\* the update of the marker
PanelsDone == Running("parse") /\ pc' = "mark"

NextLive == Statements \/ ParsePanels \/ Crash

SpecLive == Init /\ [][NextLive]_vars /\ WF_vars(Statements) /\ WF_pc(PanelsDone)

(***************************************************************************)
(* parseActions alone, on every narrative of Narratives                    *)
(***************************************************************************)
InitParse ==
    /\ caseDownloadsFile = EmptyObject
    /\ actionsDownloadsFile = EmptyObject
    /\ rawHtmlFiles = {}
    /\ caseFiles = {}
    /\ pdfFiles = {}
    /\ summaryFile = <<>>
    /\ actionsFile = <<>>
    /\ procState = "exited"
    /\ exitCode = 0
    /\ run = MaxRuns
    /\ nodeStrict = FALSE
    /\ argv = [caseId |-> "", csv |-> FALSE, csvFile |-> <<>>, new |-> FALSE,
               cache |-> "seconds"]
    /\ summary = <<>>
    /\ actions = <<>>
    /\ pc = "main"
    /\ driver = "none"
    /\ rowIdx = 1
    /\ gc = NoCall
    /\ da = NoDownload
    /\ request = NoRequest
    /\ unhandled = FALSE
    /\ hist = NoHistory
    /\ PaInit

NextParse ==
    \/ PaMatch /\ UNCHANGED <<diskVars, procVars>>
    \/ PaChunk /\ UNCHANGED <<diskVars, procVars>>
    \/ PaReturn /\ UNCHANGED <<diskVars, procVars>>

SpecParse == InitParse /\ [][NextParse]_vars

(***************************************************************************)
(* Properties of getCase, getCases and downloadAction                      *)
(***************************************************************************)
\* the callback of the case request has run to its end (or has thrown)
CallbackEnded == pc = "loop" /\ ~request.outstanding /\ gc.promise # "none"

ResponseFailed == gc.response.error \/ gc.response.statusCode >= 300

\* C1: when the case request ends in a transport error or in a status code
\* >= 300, getCase rejects and at the end of the call the persisted marker of
\* the case is still true.
C1_FailedFetchKeepsMarker ==
    (CallbackEnded /\ ResponseFailed)
        => (gc.promise = "rejected" /\ Marked(caseDownloadsFile, gc.caseId))

Artifacts == CaseFileKinds \cup {"summaryStore", "actionsStore"}

\* C2: when the case request is answered with a success status and a body
\* holding an error banner, no per-case file is written and no row is
\* upserted into the summary store or the actions store by that call.
C2_BannerWritesNothing ==
    (gc.response.statusCode = 200 /\ gc.response.banner # "")
        => hist.callWrites \cap Artifacts = {}

NonEmptyCells(cells) == SelectSeq(cells, LAMBDA c : c # "")

\* C3: in batch mode, after getCase has failed for a case id, getCase is still
\* called for every remaining case id of the CSV, in order: when the process
\* ends, every case id of the CSV has been attempted.
C3_BatchContinues ==
    (procState = "exited" /\ argv.csv /\ hist.failed # {})
        => hist.attempted = NonEmptyCells(argv.csvFile)

\* C4: the request of a fetch carries a time-to-live of zero if the persisted
\* marker of its key was true when the fetch began, whatever the configured
\* cache duration, and the configured time-to-live otherwise.
C4_ForcedRefreshTTL ==
    request.kind # "none"
        => request.ttl = (IF hist.markedAtStart THEN 0 ELSE TTL(argv))

\* a case request issued with a zero time-to-live because of a marker left
\* true, under a configured cache duration that is not zero
C4_Witness ==
    /\ request.outstanding
    /\ request.kind = "case"
    /\ hist.markedAtStart
    /\ TTL(argv) # 0
    /\ request.ttl = 0

\* C5: for every key whose fetch was begun in this run, if the persisted
\* marker is false then the response body has been written to its file.
C5_MarkerFalseOnlyAfterBody ==
    /\ \A c \in hist.begunCases :
          ~Marked(caseDownloadsFile, c) => c \in hist.writtenCases
    /\ \A k \in hist.begunActions :
          ~Marked(actionsDownloadsFile, k) => k \in hist.writtenActions

\* C6: while getCase extracts the panels and parses the narrative, the
\* persisted marker of the case is already false.
C6_MarkerFalseBeforeParsing ==
    (procState = "running" /\ pc = "parse") => ~Marked(caseDownloadsFile, gc.caseId)

\* the persisted marker of the key of a request
MarkedOnDisk(caseMarkers, actionMarkers, req) ==
    IF req.kind = "case" THEN Marked(caseMarkers, req.caseId)
    ELSE Marked(actionMarkers, ActionKey(req.caseId, req.id))

\* C7: whenever a request of getCase or downloadAction is outstanding, the
\* marker of its key is true in the marker file, and it is still true there
\* after a crash while the request is outstanding.
C7_MarkerTrueBeforeRequest ==
    [][/\ request'.outstanding
           => MarkedOnDisk(caseDownloadsFile', actionsDownloadsFile', request')
       /\ (request.outstanding /\ procState' = "crashed")
           => MarkedOnDisk(caseDownloadsFile', actionsDownloadsFile', request)]_vars

\* an attachment request is outstanding and its marker is true on disk
C7_Witness ==
    /\ request.outstanding
    /\ request.kind = "action"
    /\ Marked(actionsDownloadsFile, ActionKey(request.caseId, request.id))

\* the case request was answered with a success status and no error banner
GoodResponse ==
    ~gc.response.error /\ gc.response.statusCode = 200 /\ gc.response.banner = ""

\* the attachment ids of the links that have one, in the order of the links
RECURSIVE LinkIds(_)
LinkIds(links) ==
    IF links = <<>> THEN <<>>
    ELSE (LET m == MatchHrefId(Head(links), 1)
          IN IF m = <<>> THEN <<>> ELSE <<m[1]>>)
         \o LinkIds(Tail(links))

HasLinkWithoutId(links) == \E i \in 1..Len(links) : MatchHrefId(links[i], 1) = <<>>

\* the per-case files and the summary row of the current getCase call are written
CaseSaved == (CaseFileKinds \cup {"summaryStore"}) \subseteq hist.callWrites

\* C12: when the register of actions holds a link without an id=...& parameter,
\* getCase skips that link: at the end of the callback every other link has
\* been passed to downloadAction, the per-case files and the store rows are
\* written, and the promise of getCase is resolved.
C12_LinkWithoutIdSkipped ==
    (CallbackEnded /\ GoodResponse /\ HasLinkWithoutId(gc.response.page.links))
        => /\ gc.promise = "resolved"
           /\ hist.callDownloads = LinkIds(gc.response.page.links)
           /\ CaseSaved

\* C13: when downloadAction fails for an attachment (transport error or status
\* >= 300), getCase still calls downloadAction for every link, in the order of
\* the links, still writes the per-case files and the store rows, and still
\* resolves.
C13_FailedAttachmentTolerated ==
    (/\ CallbackEnded
     /\ GoodResponse
     /\ ~HasLinkWithoutId(gc.response.page.links)
     /\ hist.callFailed # {})
        => /\ gc.promise = "resolved"
           /\ hist.callDownloads = LinkIds(gc.response.page.links)
           /\ CaseSaved

\* the download of the first of two attachments has failed, the second was
\* still requested, and getCase has resolved
C13_Witness ==
    /\ CallbackEnded
    /\ GoodResponse
    /\ gc.response.page.links = <<HrefAb12, HrefCd34>>
    /\ <<"a", "b", "1", "2">> \in hist.callFailed
    /\ hist.callDownloads = <<<<"a", "b", "1", "2">>, <<"c", "d", "3", "4">>>>
    /\ gc.promise = "resolved"
    /\ CaseSaved

UniqueKeys(store, keyField) ==
    \A i, j \in 1..Len(store) : store[i][keyField] = store[j][keyField] => i = j

HasRow(store, row) == \E i \in 1..Len(store) : store[i] = row

\* C14: the summary store holds one row per case id and the actions store one
\* row per action id, in memory and in their files; after an upsert the row
\* of the key holds the values of the latest fetch.
C14_OneRowPerKey ==
    /\ UniqueKeys(summary, "caseId")
    /\ UniqueKeys(summaryFile, "caseId")
    /\ UniqueKeys(actions, "id")
    /\ UniqueKeys(actionsFile, "id")
    /\ Running("saveSummary")
           => \A i \in 1..Len(gc.data.actions) : HasRow(actions, gc.data.actions[i])
    /\ Running("resolve") => HasRow(summary, OmitCostsActions(gc.data))

\* the actions of a second fetch of a case have been upserted over the rows of
\* an earlier fetch with another page: the summary store still holds the row
\* of the earlier fetch, the actions store already the first action of the new
\* one
C14_Witness ==
    /\ Running("saveSummary")
    /\ gc.response.page = PageFull
    /\ \E i \in 1..Len(summary) :
          summary[i].caseId = gc.caseId /\ summary[i].summary = "summary2"
    /\ \E i \in 1..Len(actions) :
          actions[i].id = <<gc.caseId, 0>> /\ Truthy(actions[i], "intiated")

\* C15: at most one request is outstanding at any time, and a request (for a
\* case or for an attachment) is issued only when no request is outstanding.
C15_OneOutstanding ==
    /\ hist.inFlight <= 1
    /\ (Running("executor") \/ Running("actionExecutor")) => hist.inFlight = 0

\* after a failed attachment download the request for the next attachment is
\* the only one outstanding
C15_Witness ==
    /\ procState = "running"
    /\ request.outstanding
    /\ request.kind = "action"
    /\ hist.callFailed # {}
    /\ hist.inFlight = 1

\* C16: once a getCase call of a run without a crash has resolved, also through
\* the early return under --new, the persisted marker of its case id is not
\* true.
C16_MarkerNotTrueAfterResolve ==
    (run = 1 /\ procState # "crashed" /\ gc.promise = "resolved")
        => ~Marked(caseDownloadsFile, gc.caseId)

\* C18: in the record getCase builds, every text field holds the text of its
\* own panel: parties the party/attorney panel, offense the offense panel, and
\* a field whose panel is absent is the empty string.
C18_FieldsOfOwnPanel ==
    Running("mark")
        => /\ gc.data.summary = gc.response.page.summary
           /\ gc.data.parties = gc.response.page.party
           /\ Has(gc.data, "offense")
           /\ gc.data.offense = gc.response.page.offense
           /\ gc.data.arrestingOfficers = gc.response.page.officers
           /\ gc.data.schedule = gc.response.page.schedule
           /\ gc.data.finances = gc.response.page.finances

RowsOf(store, caseId) ==
    {store[i] : i \in {j \in 1..Len(store) : store[j].caseId = caseId}}

\* C19: after a successful fetch of a case id the stored data of that id is
\* that of this fetch alone: the summary row holds the new summary fields and
\* the rows of the actions store with that caseId are exactly the actions of
\* this fetch, with no row of an earlier fetch left.
C19_RefetchReplaces ==
    (CallbackEnded /\ GoodResponse /\ gc.promise = "resolved")
        => /\ RowsOf(summary, gc.caseId) = {OmitCostsActions(gc.data)}
           /\ RowsOf(actions, gc.caseId)
                  = {gc.data.actions[i] : i \in 1..Len(gc.data.actions)}

\* C20: whenever the callback of the case request is called, the promise of
\* getCase is eventually resolved or rejected (unless the process is killed).
C20_PromiseSettles ==
    Running("callback")
        ~> (gc.promise \in {"resolved", "rejected"} \/ procState = "crashed")

(***************************************************************************)
(* Properties of parseActions                                              *)
(***************************************************************************)
NarrativeC8 == Join(<<FragCaseFiled, FragAnswerFiled, FragImage>>, <<<<" ">>, <<" ">>>>)

NarrativeC9 == Join(<<FragInitiated, FragSummons>>, <<<<" ">>>>)

\* C8: the narrative "1/2/2020 Case Filed 1/5/2020 Answer Filed Image ID ab12"
\* parses to exactly two actions, in this order: 2020-01-02 "Case Filed", and
\* 2020-01-05 "Answer Filed" with the attachment identifier "ab12".
C8_TwoActions ==
    (paPc = "done" /\ paText = NarrativeC8)
        => /\ Len(paResult) = 2
           /\ paResult[1].date = <<"2", "0", "2", "0", "-", "0", "1", "-", "0", "2">>
           /\ paResult[1].type = <<"C", "a", "s", "e", " ", "F", "i", "l", "e", "d">>
           /\ paResult[2].date = <<"2", "0", "2", "0", "-", "0", "1", "-", "0", "5">>
           /\ paResult[2].type = <<"A", "n", "s", "w", "e", "r", " ", "F", "i", "l", "e", "d">>
           /\ Has(paResult[2], "image")
           /\ paResult[2].image = <<"a", "b", "1", "2">>

\* C9: the narrative "This action initiated by Plaintiff 1/1/2021 Summons
\* Issued" parses to exactly one action, 2021-01-01 "Summons Issued", and the
\* initiator text before the first date is attached to no action.
C9_OneAction ==
    (paPc = "done" /\ paText = NarrativeC9)
        => /\ Len(paResult) = 1
           /\ paResult[1].date = <<"2", "0", "2", "1", "-", "0", "1", "-", "0", "1">>
           /\ paResult[1].type = <<"S", "u", "m", "m", "o", "n", "s", " ", "I", "s", "s", "u", "e", "d">>
           /\ ~Has(paResult[1], "intiated")

\* C10: every action parseActions returns has a date that is not empty, and
\* an empty or white-space-only narrative gives the empty list.
C10_DatedOrEmpty ==
    paPc = "done"
        => /\ \A i \in 1..Len(paResult) : Truthy(paResult[i], "date")
           /\ Trim(paText) = <<>> => paResult = <<>>

\* parseActions has returned an action and has dropped an accumulated
\* object without a date
C10_Witness ==
    /\ paPc = "done"
    /\ Len(paResult) >= 1
    /\ \E i \in 1..Len(paActions) : ~Truthy(paActions[i], "date")

\* the chunk starts with a date-shaped token
StartsWithDate(part) == MatchBeginning(Trim(part)) # <<>>

\* the chunk starts with a date-shaped token that is not a calendar date
BadDateChunk(part) ==
    StartsWithDate(part) /\ ~MomentParse(MatchBeginning(Trim(part))[1]).valid

\* the chunks without the actions opened by a bad date: a chunk with a bad
\* date and the chunks that follow it up to the next date are left out
RECURSIVE WithoutBadActions(_, _)
WithoutBadActions(parts, inBad) ==
    IF parts = <<>> THEN <<>>
    ELSE LET bad == IF StartsWithDate(Head(parts)) THEN BadDateChunk(Head(parts))
                    ELSE inBad
         IN (IF bad THEN <<>> ELSE <<Head(parts)>>)
            \o WithoutBadActions(Tail(parts), bad)

NoParse == [actions |-> <<>>, action |-> EmptyObject]

\* C11: an action opened by a chunk whose date-shaped token is not a calendar
\* date is not in the output of parseActions (no record carries a placeholder
\* date), and the output is what it is for the narrative without that action.
C11_BadDateDiscarded ==
    paPc = "done"
        => /\ \A i \in 1..Len(paResult) : paResult[i].date # InvalidDate
           /\ paResult = FilterDated(ParseLoop(WithoutBadActions(paParts, FALSE), 1,
                                               NoParse, ParserCaseId).actions)

\* the actions of the chunks when every accumulated action is closed out, the
\* last one too, and only the actions with a calendar date are kept
ActionsOfChunks(parts) ==
    LET st == ParseLoop(parts, 1, NoParse, ParserCaseId)
    IN SelectSeq(Append(st.actions, st.action),
                 LAMBDA a : Truthy(a, "date") /\ a.date # InvalidDate)

\* C17: parseActions returns one action per chunk that starts with a
\* parseable date, in the order of the chunks, each with the initiated-by,
\* image-id and other chunks that follow it up to the next date.
C17_OnePerDateChunk ==
    paPc = "done" => paResult = ActionsOfChunks(paParts)

====
